---- MODULE Spec2Model ----
(***************************************************************************)
(* read_docs.py: the word-document extractor read_docx, the spreadsheet    *)
(* extractor read_xlsx and the driver block that runs one after the other  *)
(* on a single output stream.                                              *)
(*                                                                         *)
(* A text is a sequence of one-character strings.  The two header texts,   *)
(* the diagnostic prefix and the failure description are fixed texts of    *)
(* the program; each is carried as one non-whitespace token.               *)
(***************************************************************************)
EXTENDS Integers, Sequences, FiniteSets

VARIABLES pc, docx, xlsx, out, pi, ti, ri, ei, ni, stream, exc, exit,
          docxSt, xlsxSt, caught

vars == <<pc, docx, xlsx, out, pi, ti, ri, ei, ni, stream, exc, exit,
          docxSt, xlsxSt, caught>>

-----------------------------------------------------------------------------
(* Bounds of the explored inputs. *)

MaxLen == 3
MaxParas == 3
MaxCells == 3
MaxEntries == 2

-----------------------------------------------------------------------------
(* Characters and str methods. *)

NL == "\n"
SP == " "
Letters == {"a"}
Chars == Letters \cup {SP, NL}

\* the characters str.strip() removes
Whitespace == {SP, NL, "\t", "\r"}

Str(n) == UNION {[1..k -> Chars] : k \in 0..n}

RECURSIVE LStrip(_)
LStrip(s) ==
    IF s = <<>> THEN <<>>
    ELSE IF Head(s) \in Whitespace THEN LStrip(Tail(s)) ELSE s

RECURSIVE RStrip(_)
RStrip(s) ==
    IF s = <<>> THEN <<>>
    ELSE IF s[Len(s)] \in Whitespace THEN RStrip(SubSeq(s, 1, Len(s) - 1)) ELSE s

\* str.strip()
Strip(s) == RStrip(LStrip(s))

\* str.replace("\n", " ")
ReplaceNL(s) == [i \in 1..Len(s) |-> IF s[i] = NL THEN SP ELSE s[i]]

\* " | "
Separator == <<SP, "|", SP>>

\* " | ".join(row_data)
RECURSIVE Join(_)
Join(cells) ==
    IF cells = <<>> THEN <<>>
    ELSE IF Len(cells) = 1 THEN cells[1]
    ELSE cells[1] \o Separator \o Join(Tail(cells))

\* any(row_data): some string of the list is non-empty
AnyCell(cells) == \E i \in 1..Len(cells) : cells[i] # <<>>

-----------------------------------------------------------------------------
(* read_docx, the pure parts. *)

DocxHeaderText == <<"--- DOCX: path ---", NL>>

\* line 9: if p.text.strip()
ParagraphHasText_truthy(p) == p # <<>>
ParagraphHasText(p) == Strip(p) # <<>>

\* line 10: p.text + "\n"
ParagraphLine_stripped(p) == Strip(p) \o <<NL>>
ParagraphLine(p) == p \o <<NL>>

\* line 15: cell.text.replace("\n", " ").strip()
NormalizeCell_noreplace(c) == Strip(c)
NormalizeCell(c) == Strip(ReplaceNL(c))

\* lines 13-15: row_data
RowData(row) == [i \in 1..Len(row) |-> NormalizeCell(row[i])]

\* line 17: " | ".join(row_data) + "\n"
RowLine(row) == Join(RowData(row)) \o <<NL>>

-----------------------------------------------------------------------------
(* read_xlsx, the pure parts. *)

XlsxHeaderText_noblank == <<"--- XLSX: path ---", NL>>
XlsxHeaderText == <<NL, "--- XLSX: path ---", NL>>

DiagText == <<"Failed to read xlsx: ", "description", NL>>

\* an element: its text (None when hasText is FALSE) and its children
Elem(has, text, kids) == [hasText |-> has, text |-> text, kids |-> kids]
NoText(kids) == Elem(FALSE, <<>>, kids)
Text(t, kids) == Elem(TRUE, t, kids)

\* root.iter(): the element itself, then its descendants, in document order
RECURSIVE IterKids(_)
Iter(e) == <<[hasText |-> e.hasText, text |-> e.text]>> \o IterKids(e.kids)
IterKids(ks) ==
    IF ks = <<>> THEN <<>> ELSE Iter(Head(ks)) \o IterKids(Tail(ks))

\* line 29: if elem.text and elem.text.strip()
ElemHasText(n) == n.hasText /\ n.text # <<>> /\ Strip(n.text) # <<>>

\* line 30: elem.text.strip() + "\n"
ElemLine(n) == Strip(n.text) \o <<NL>>

-----------------------------------------------------------------------------
(* The inputs: what docx.Document(path) and zipfile.ZipFile(path) find.    *)

SeqsUpTo(S, n) == UNION {[1..k -> S] : k \in 0..n}

Texts == Str(MaxLen)
SmallTexts == {<<"a">>, <<SP, "a">>, <<"a", NL>>, <<SP>>}

Doc(ps, ts) == [ok |-> TRUE, paragraphs |-> ps, tables |-> ts]
\* docx.Document(path) raises: no such file, or not a word document
InvalidDoc == [ok |-> FALSE, paragraphs |-> <<>>, tables |-> <<>>]

ExampleRow == <<<<"a">>, <<>>, <<SP, "b", NL, "c", SP>>>>
BlankRow == <<<<SP>>, <<>>, <<NL, SP>>>>
SmallRows == {ExampleRow, BlankRow, <<<<"a", NL>>>>}

ShapedTables ==
    {<<>>, << <<>> >>}
    \cup {<< <<r1, r2>>, <<>>, <<r3>> >> : r1 \in SmallRows, r2 \in SmallRows, r3 \in SmallRows}

MixedDoc == Doc(<<<<SP, "a">>, <<SP>>, <<"b">>>>, << <<ExampleRow, BlankRow>> >>)

Docs ==
    {InvalidDoc, MixedDoc}
    \cup {Doc(<<p>>, <<>>) : p \in Texts}
    \cup {Doc(ps, <<>>) : ps \in SeqsUpTo(SmallTexts, MaxParas)}
    \cup {Doc(<<>>, << <<<<c>>>> >>) : c \in Texts}
    \cup {Doc(<<>>, << <<row>> >>) : row \in SeqsUpTo(SmallTexts, MaxCells)}
    \cup {Doc(<<<<"a">>>>, ts) : ts \in ShapedTables}

SmallDocs == {InvalidDoc, MixedDoc}

\* an archive entry: whether its name ends in ".xml", whether z.read and
\* ET.fromstring succeed on it, and the tree ET.fromstring returns
Entry(xml, status, root) == [xml |-> xml, status |-> status, root |-> root]

Revenue == <<"R", "e", "v", "e", "n", "u", "e">>
DeepTree ==
    Text(<<"a">>, <<Text(<<"b">>, <<Text(<<"c">>, <<>>)>>), Text(<<"d">>, <<>>)>>)
GappyTree ==
    NoText(<<Text(<<SP>>, <<>>), Text(<<SP, "b", NL>>, <<NoText(<<>>)>>), Text(<<>>, <<>>)>>)

Leaves ==
    {NoText(<<>>), Text(Revenue, <<>>), Text(<<"a", NL, NL, "a">>, <<>>),
     Text(<<SP, "a", NL, SP, NL, "a", NL>>, <<>>)}
    \cup {Text(t, <<>>) : t \in Texts}

MalformedEntry == Entry(TRUE, "malformed", NoText(<<>>))
UnreadableEntry == Entry(TRUE, "badread", NoText(<<>>))
NonXmlEntry == Entry(FALSE, "ok", Text(<<"x">>, <<>>))
RevenueEntry == Entry(TRUE, "ok", Text(Revenue, <<>>))

SmallEntries ==
    {MalformedEntry, UnreadableEntry, NonXmlEntry, RevenueEntry,
     Entry(TRUE, "ok", DeepTree), Entry(TRUE, "ok", GappyTree)}

Archive(es) == [ok |-> TRUE, entries |-> es]
\* zipfile.ZipFile(path) raises: no such file, empty file, not a zip archive
NotZip == [ok |-> FALSE, entries |-> <<>>]
RevenueArchive == Archive(<<MalformedEntry, RevenueEntry>>)

Archives ==
    {NotZip, RevenueArchive}
    \cup {Archive(<<Entry(TRUE, "ok", r)>>) : r \in Leaves}
    \cup {Archive(es) : es \in SeqsUpTo(SmallEntries, MaxEntries)}

-----------------------------------------------------------------------------
(* The program.                                                            *)
(*   out     the calls of out_file.write that succeeded, in order: which   *)
(*           statement wrote (kind), for which archive entry (src, 0 when  *)
(*           none) and the text                                            *)
(*   stream  the output file object: "unopened", "open" or "closed"        *)
(*   exc     the statement whose exception is propagating, or "none"       *)
(*   caught  the failures an except clause of read_xlsx has swallowed      *)
(*   exit    the exit status of the process, -1 while it runs              *)

Init ==
    /\ pc = "start"
    /\ \/ docx \in Docs /\ xlsx \in {NotZip, RevenueArchive}
       \/ docx \in SmallDocs /\ xlsx \in Archives
    /\ out = <<>>
    /\ pi = 1 /\ ti = 1 /\ ri = 1 /\ ei = 1 /\ ni = 1
    /\ stream = "unopened"
    /\ exc = "none"
    /\ exit = -1
    /\ docxSt = "notcalled"
    /\ xlsxSt = "notcalled"
    /\ caught = {}

\* out_file.write(text) returns
Write(kind, src, text) ==
    out' = Append(out, [kind |-> kind, src |-> src, text |-> text])

\* an exception leaves read_docx: it crosses the with block of the driver
DocxRaise(e) ==
    /\ exc' = e
    /\ docxSt' = "raised"
    /\ pc' = "close"

\* an exception leaves read_xlsx
XlsxRaise(e) ==
    /\ exc' = e
    /\ xlsxSt' = "raised"
    /\ pc' = "close"

\* line 37: open(..., "w", encoding="utf-8"), then the call of read_docx
OpenOut ==
    /\ pc = "start"
    /\ \/ /\ stream' = "open"
          /\ pc' = "docx_hdr"
          /\ docxSt' = "running"
          /\ UNCHANGED <<exc, exit>>
       \/ /\ exc' = "open_out"
          /\ exit' = 1
          /\ pc' = "done"
          /\ UNCHANGED <<stream, docxSt>>
    /\ UNCHANGED <<docx, xlsx, out, pi, ti, ri, ei, ni, xlsxSt, caught>>

\* line 6
DocxHeader ==
    /\ pc = "docx_hdr"
    /\ \/ /\ Write("dhdr", 0, DocxHeaderText)
          /\ pc' = "docx_open"
          /\ UNCHANGED <<exc, docxSt>>
       \/ /\ DocxRaise("docx_hdr_write")
          /\ UNCHANGED out
    /\ UNCHANGED <<docx, xlsx, pi, ti, ri, ei, ni, stream, exit, xlsxSt, caught>>

\* line 7
DocxOpen_caught ==
    /\ pc = "docx_open"
    /\ IF docx.ok
       THEN pc' = "docx_paras" /\ UNCHANGED <<exc, docxSt, xlsxSt>>
       ELSE pc' = "xlsx_hdr" /\ docxSt' = "returned" /\ xlsxSt' = "running"
            /\ UNCHANGED exc
    /\ UNCHANGED <<docx, xlsx, out, pi, ti, ri, ei, ni, stream, exit, caught>>

DocxOpen ==
    /\ pc = "docx_open"
    /\ IF docx.ok
       THEN pc' = "docx_paras" /\ UNCHANGED <<exc, docxSt>>
       ELSE DocxRaise("docx_open")
    /\ UNCHANGED <<docx, xlsx, out, pi, ti, ri, ei, ni, stream, exit, xlsxSt, caught>>

\* lines 8-10, one iteration
DocxParagraph ==
    /\ pc = "docx_paras"
    /\ pi <= Len(docx.paragraphs)
    /\ LET p == docx.paragraphs[pi] IN
       IF ParagraphHasText(p)
       THEN \/ /\ Write("para", 0, ParagraphLine(p))
               /\ pi' = pi + 1
               /\ UNCHANGED <<pc, exc, docxSt>>
            \/ /\ DocxRaise("para_write")
               /\ UNCHANGED <<out, pi>>
       ELSE /\ pi' = pi + 1
            /\ UNCHANGED <<pc, out, exc, docxSt>>
    /\ UNCHANGED <<docx, xlsx, ti, ri, ei, ni, stream, exit, xlsxSt, caught>>

\* line 8: doc.paragraphs is exhausted
DocxParagraphsDone ==
    /\ pc = "docx_paras"
    /\ pi > Len(docx.paragraphs)
    /\ pc' = "docx_rows"
    /\ UNCHANGED <<docx, xlsx, out, pi, ti, ri, ei, ni, stream, exc, exit,
                   docxSt, xlsxSt, caught>>

\* lines 12-17, one iteration
DocxRow ==
    /\ pc = "docx_rows"
    /\ ti <= Len(docx.tables)
    /\ ri <= Len(docx.tables[ti])
    /\ LET row == docx.tables[ti][ri] IN
       IF AnyCell(RowData(row))
       THEN \/ /\ Write("row", 0, RowLine(row))
               /\ ri' = ri + 1
               /\ UNCHANGED <<pc, exc, docxSt>>
            \/ /\ DocxRaise("row_write")
               /\ UNCHANGED <<out, ri>>
       ELSE /\ ri' = ri + 1
            /\ UNCHANGED <<pc, out, exc, docxSt>>
    /\ UNCHANGED <<docx, xlsx, pi, ti, ei, ni, stream, exit, xlsxSt, caught>>

\* line 12: table.rows is exhausted, line 11 takes the next table
DocxNextTable ==
    /\ pc = "docx_rows"
    /\ ti <= Len(docx.tables)
    /\ ri > Len(docx.tables[ti])
    /\ ti' = ti + 1
    /\ ri' = 1
    /\ UNCHANGED <<pc, docx, xlsx, out, pi, ei, ni, stream, exc, exit,
                   docxSt, xlsxSt, caught>>

\* line 11: doc.tables is exhausted, read_docx returns; line 39 calls read_xlsx
DocxReturn ==
    /\ pc = "docx_rows"
    /\ ti > Len(docx.tables)
    /\ docxSt' = "returned"
    /\ xlsxSt' = "running"
    /\ pc' = "xlsx_hdr"
    /\ UNCHANGED <<docx, xlsx, out, pi, ti, ri, ei, ni, stream, exc, exit, caught>>

\* line 20
XlsxHeader ==
    /\ pc = "xlsx_hdr"
    /\ \/ /\ Write("xhdr", 0, XlsxHeaderText)
          /\ pc' = "xlsx_open"
          /\ UNCHANGED <<exc, xlsxSt>>
       \/ /\ XlsxRaise("xlsx_hdr_write")
          /\ UNCHANGED out
    /\ UNCHANGED <<docx, xlsx, pi, ti, ri, ei, ni, stream, exit, docxSt, caught>>

\* lines 21-22 and, when ZipFile raises, the except clause of line 33
XlsxOpen_uncaught ==
    /\ pc = "xlsx_open"
    /\ IF xlsx.ok
       THEN pc' = "xlsx_entries" /\ UNCHANGED <<exc, xlsxSt>>
       ELSE XlsxRaise("zip_open")
    /\ UNCHANGED <<docx, xlsx, out, pi, ti, ri, ei, ni, stream, exit, docxSt, caught>>

XlsxOpen ==
    /\ pc = "xlsx_open"
    /\ IF xlsx.ok
       THEN pc' = "xlsx_entries" /\ UNCHANGED caught
       ELSE pc' = "xlsx_diag" /\ caught' = caught \cup {"zip_open"}
    /\ UNCHANGED <<docx, xlsx, out, pi, ti, ri, ei, ni, stream, exc, exit,
                   docxSt, xlsxSt>>

\* line 34
XlsxDiag ==
    /\ pc = "xlsx_diag"
    /\ \/ /\ Write("diag", 0, DiagText)
          /\ xlsxSt' = "returned"
          /\ pc' = "close"
          /\ UNCHANGED exc
       \/ /\ XlsxRaise("xlsx_diag_write")
          /\ UNCHANGED out
    /\ UNCHANGED <<docx, xlsx, pi, ti, ri, ei, ni, stream, exit, docxSt, caught>>

\* lines 23-27 for one entry, and the except clause of line 31 when z.read
\* or ET.fromstring raises
XlsxEntry_abort ==
    /\ pc = "xlsx_entries"
    /\ ei <= Len(xlsx.entries)
    /\ LET e == xlsx.entries[ei] IN
       IF ~e.xml
       THEN ei' = ei + 1 /\ UNCHANGED <<pc, ni, caught>>
       ELSE IF e.status # "ok"
       THEN pc' = "xlsx_diag" /\ caught' = caught \cup {e.status}
            /\ UNCHANGED <<ei, ni>>
       ELSE pc' = "xlsx_nodes" /\ ni' = 1 /\ UNCHANGED <<ei, caught>>
    /\ UNCHANGED <<docx, xlsx, out, pi, ti, ri, stream, exc, exit, docxSt, xlsxSt>>

XlsxEntry ==
    /\ pc = "xlsx_entries"
    /\ ei <= Len(xlsx.entries)
    /\ LET e == xlsx.entries[ei] IN
       IF ~e.xml
       THEN ei' = ei + 1 /\ UNCHANGED <<pc, ni, caught>>
       ELSE IF e.status # "ok"
       THEN ei' = ei + 1 /\ caught' = caught \cup {e.status}
            /\ UNCHANGED <<pc, ni>>
       ELSE pc' = "xlsx_nodes" /\ ni' = 1 /\ UNCHANGED <<ei, caught>>
    /\ UNCHANGED <<docx, xlsx, out, pi, ti, ri, stream, exc, exit, docxSt, xlsxSt>>

\* lines 28-30 for one element, and the except clause of line 31 when the
\* write raises
XlsxNode_uncaught ==
    /\ pc = "xlsx_nodes"
    /\ ni <= Len(Iter(xlsx.entries[ei].root))
    /\ LET n == Iter(xlsx.entries[ei].root)[ni] IN
       IF ElemHasText(n)
       THEN \/ /\ Write("node", ei, ElemLine(n))
               /\ ni' = ni + 1
               /\ UNCHANGED <<pc, ei, exc, xlsxSt>>
            \/ /\ XlsxRaise("node_write")
               /\ UNCHANGED <<out, ei, ni>>
       ELSE /\ ni' = ni + 1
            /\ UNCHANGED <<pc, out, ei, exc, xlsxSt>>
    /\ UNCHANGED <<docx, xlsx, pi, ti, ri, stream, exit, docxSt, caught>>

XlsxNode ==
    /\ pc = "xlsx_nodes"
    /\ ni <= Len(Iter(xlsx.entries[ei].root))
    /\ LET n == Iter(xlsx.entries[ei].root)[ni] IN
       IF ElemHasText(n)
       THEN \/ /\ Write("node", ei, ElemLine(n))
               /\ ni' = ni + 1
               /\ UNCHANGED <<pc, ei, caught>>
            \/ /\ caught' = caught \cup {"node_write"}
               /\ ei' = ei + 1
               /\ pc' = "xlsx_entries"
               /\ UNCHANGED <<out, ni>>
       ELSE /\ ni' = ni + 1
            /\ UNCHANGED <<pc, out, ei, caught>>
    /\ UNCHANGED <<docx, xlsx, pi, ti, ri, stream, exc, exit, docxSt, xlsxSt>>

\* line 28: root.iter() is exhausted, line 23 takes the next entry
XlsxNextEntry ==
    /\ pc = "xlsx_nodes"
    /\ ni > Len(Iter(xlsx.entries[ei].root))
    /\ ei' = ei + 1
    /\ pc' = "xlsx_entries"
    /\ UNCHANGED <<docx, xlsx, out, pi, ti, ri, ni, stream, exc, exit,
                   docxSt, xlsxSt, caught>>

\* line 23: z.namelist() is exhausted, the archive is closed, read_xlsx returns
XlsxReturn ==
    /\ pc = "xlsx_entries"
    /\ ei > Len(xlsx.entries)
    /\ xlsxSt' = "returned"
    /\ pc' = "close"
    /\ UNCHANGED <<docx, xlsx, out, pi, ti, ri, ei, ni, stream, exc, exit,
                   docxSt, caught>>

\* line 37: the with block is left, normally or by an exception; the stream
\* is closed and an exception that nothing caught ends the process
ExitWith_leak ==
    /\ pc = "close"
    /\ stream' = IF exc = "none" THEN "closed" ELSE stream
    /\ exit' = IF exc = "none" THEN 0 ELSE 1
    /\ pc' = "done"
    /\ UNCHANGED <<docx, xlsx, out, pi, ti, ri, ei, ni, exc, docxSt, xlsxSt, caught>>

ExitWith_swallow ==
    /\ pc = "close"
    /\ stream' = "closed"
    /\ exit' = 0
    /\ pc' = "done"
    /\ UNCHANGED <<docx, xlsx, out, pi, ti, ri, ei, ni, exc, docxSt, xlsxSt, caught>>

ExitWith ==
    /\ pc = "close"
    /\ stream' = "closed"
    /\ exit' = IF exc = "none" THEN 0 ELSE 1
    /\ pc' = "done"
    /\ UNCHANGED <<docx, xlsx, out, pi, ti, ri, ei, ni, exc, docxSt, xlsxSt, caught>>

Next ==
    \/ OpenOut
    \/ DocxHeader
    \/ DocxOpen
    \/ DocxParagraph
    \/ DocxParagraphsDone
    \/ DocxRow
    \/ DocxNextTable
    \/ DocxReturn
    \/ XlsxHeader
    \/ XlsxOpen
    \/ XlsxDiag
    \/ XlsxEntry
    \/ XlsxNode
    \/ XlsxNextEntry
    \/ XlsxReturn
    \/ ExitWith

Spec == Init /\ [][Next]_vars

-----------------------------------------------------------------------------
(* Vocabulary of the properties, stated without the operators above.       *)

IsBlank(s) == \A i \in 1..Len(s) : s[i] \in {SP, NL, "\t", "\r"}

\* s without its leading and trailing whitespace
Trimmed(s) ==
    LET solid == {i \in 1..Len(s) : s[i] \notin {SP, NL, "\t", "\r"}} IN
    IF solid = {} THEN <<>>
    ELSE SubSeq(s, CHOOSE i \in solid : \A j \in solid : i <= j,
                   CHOOSE i \in solid : \A j \in solid : i >= j)

HasNL(s) == \E i \in 1..Len(s) : s[i] = NL

\* the lines of a text whose last character is a line break
RECURSIVE LinesFrom(_, _)
LinesFrom(s, cur) ==
    IF s = <<>> THEN (IF cur = <<>> THEN <<>> ELSE <<cur>>)
    ELSE IF Head(s) = NL THEN <<cur>> \o LinesFrom(Tail(s), <<>>)
    ELSE LinesFrom(Tail(s), Append(cur, Head(s)))

Lines(s) == LinesFrom(s, <<>>)

RECURSIVE Concat(_)
Concat(ss) == IF ss = <<>> THEN <<>> ELSE Head(ss) \o Concat(Tail(ss))

TextsOf(ws) == [i \in 1..Len(ws) |-> ws[i].text]
OfKind(k) == SelectSeq(out, LAMBDA w : w.kind = k)
OfEntry(e) == SelectSeq(out, LAMBDA w : w.src = e)

\* the lines of the output file
OutLines == Lines(Concat(TextsOf(out)))
IsLine(l) == \E i \in 1..Len(OutLines) : OutLines[i] = l

\* the text without the line break that ends it
Body(t) == SubSeq(t, 1, Len(t) - 1)

\* some call of out_file.write raised
WriteFailed ==
    \/ exc \in {"docx_hdr_write", "para_write", "row_write", "xlsx_hdr_write",
                "xlsx_diag_write", "node_write"}
    \/ "node_write" \in caught

\* the paragraphs and rows the loops of read_docx have been through
ParasDone == SubSeq(docx.paragraphs, 1, pi - 1)
RowsDone ==
    Concat(SubSeq(docx.tables, 1, ti - 1))
    \o (IF ti <= Len(docx.tables) THEN SubSeq(docx.tables[ti], 1, ri - 1) ELSE <<>>)
AllRows == Concat(docx.tables)

RECURSIVE ParaExpect(_)
ParaExpect(ps) ==
    IF ps = <<>> THEN <<>>
    ELSE (IF IsBlank(Head(ps)) THEN <<>> ELSE <<Head(ps) \o <<NL>>>>)
         \o ParaExpect(Tail(ps))

RowIsBlank(row) == \A i \in 1..Len(row) : IsBlank(row[i])

RECURSIVE RowExpect(_)
RowExpect(rows) ==
    IF rows = <<>> THEN <<>>
    ELSE (IF RowIsBlank(Head(rows)) THEN <<>> ELSE <<RowLine(Head(rows))>>)
         \o RowExpect(Tail(rows))

RECURSIVE NodeExpect(_)
NodeExpect(ns) ==
    IF ns = <<>> THEN <<>>
    ELSE (IF Head(ns).hasText /\ ~IsBlank(Head(ns).text)
          THEN <<Trimmed(Head(ns).text) \o <<NL>>>> ELSE <<>>)
         \o NodeExpect(Tail(ns))

RECURSIVE EntriesExpect(_)
EntriesExpect(es) ==
    IF es = <<>> THEN <<>>
    ELSE (IF Head(es).xml /\ Head(es).status = "ok"
          THEN NodeExpect(Iter(Head(es).root)) ELSE <<>>)
         \o EntriesExpect(Tail(es))

ExampleLine == <<"a", SP, "|", SP, SP, "|", SP, "b", SP, "c">>

-----------------------------------------------------------------------------
(* C1 as stated: every paragraph gone through whose text is not blank has  *)
(* its trimmed text as a line of the output.                               *)
C1_TrimmedTextIsLine ==
    \A i \in 1..Len(ParasDone) :
        ~IsBlank(ParasDone[i]) => IsLine(Trimmed(ParasDone[i]))

(* C1 amended: read_docx writes, in document order, the untrimmed text of  *)
(* every paragraph that is not blank, followed by a line break, and        *)
(* nothing for a blank paragraph; the trimmed text is a line of the output *)
(* when the paragraph has no leading or trailing whitespace and no         *)
(* embedded line break.                                                    *)
C1_ParagraphTextWritten ==
    /\ TextsOf(OfKind("para")) = ParaExpect(ParasDone)
    /\ docxSt = "returned" => ParasDone = docx.paragraphs
    /\ \A i \in 1..Len(ParasDone) :
           LET p == ParasDone[i] IN
           (~IsBlank(p) /\ p = Trimmed(p) /\ ~HasNL(p)) => IsLine(Trimmed(p))

C1_Witness ==
    /\ docxSt = "returned"
    /\ docx.paragraphs = <<<<SP, "a">>, <<SP>>>>
    /\ TextsOf(OfKind("para")) = <<<<SP, "a", NL>>>>

(* C2: every table row gone through whose normalized cells are not all     *)
(* empty is written as exactly one line, the normalized cells joined by    *)
(* " | ", and a row of blank cells writes nothing; the row "a", "",        *)
(* " b\nc " gives the line "a |  | b c".                                   *)
C2_RowLines ==
    /\ TextsOf(OfKind("row")) = RowExpect(RowsDone)
    /\ docxSt = "returned" => RowsDone = AllRows
    /\ \A i \in 1..Len(out) :
           out[i].kind = "row" =>
               /\ Len(Lines(out[i].text)) = 1
               /\ out[i].text[Len(out[i].text)] = NL
               /\ IsLine(Body(out[i].text))
    /\ \A i \in 1..Len(RowsDone) :
           LET row == RowsDone[i] IN
           /\ ~RowIsBlank(row) =>
                  \A j \in 1..Len(row) :
                      /\ RowData(row)[j] = Trimmed(RowData(row)[j])
                      /\ ~HasNL(RowData(row)[j])
                      /\ IsBlank(row[j]) <=> RowData(row)[j] = <<>>
           /\ row = ExampleRow => IsLine(ExampleLine)

C2_Witness ==
    /\ docxSt = "returned"
    /\ docx.tables = << <<ExampleRow, BlankRow>>, <<>>, <<ExampleRow>> >>
    /\ TextsOf(OfKind("row")) = <<ExampleLine \o <<NL>>, ExampleLine \o <<NL>>>>

C5_NoExceptionEscapes == xlsxSt # "raised"

(* C5 amended: a failure of opening the archive, of reading or parsing an  *)
(* entry or of writing a text-node line never leaves read_xlsx; the only   *)
(* exceptions that leave it are a failed write of its header line and a    *)
(* failed write of its diagnostic line.                                    *)
C5_OnlyOwnWritesEscape ==
    /\ xlsxSt = "raised" => exc \in {"xlsx_hdr_write", "xlsx_diag_write"}
    /\ (xlsxSt # "notcalled" /\ pc \in {"close", "done"}
        /\ exc \notin {"xlsx_hdr_write", "xlsx_diag_write"}) =>
           xlsxSt = "returned" /\ exc = "none"

C5_Witness ==
    /\ xlsxSt = "returned"
    /\ pc = "done"
    /\ caught = {"malformed", "node_write"}

Rank(k) ==
    CASE k = "dhdr" -> 1
      [] k = "para" -> 2
      [] k = "row" -> 3
      [] k = "xhdr" -> 4
      [] OTHER -> 5

(* C6: the writes come in the order word-document header, paragraphs,      *)
(* table rows, spreadsheet header, text nodes, so no spreadsheet line      *)
(* precedes a word-document line; on a fully successful run the output is  *)
(* the header line, the paragraph lines in document order, the row lines   *)
(* in table and row order, a blank line, the spreadsheet header line and   *)
(* the text-node lines, entries in archive order and nodes in pre-order.   *)
C6_OutputOrder ==
    /\ \A i \in 1..Len(out) : \A j \in i..Len(out) :
           Rank(out[i].kind) <= Rank(out[j].kind)
    /\ \A i \in 1..Len(out) :
           LET t == out[i].text IN t # <<>> /\ t[Len(t)] = NL
    /\ (pc = "done" /\ exit = 0 /\ docx.ok /\ xlsx.ok /\ caught = {}) =>
           /\ TextsOf(out) =
                  <<<<"--- DOCX: path ---", NL>>>>
                  \o ParaExpect(docx.paragraphs)
                  \o RowExpect(AllRows)
                  \o <<<<NL, "--- XLSX: path ---", NL>>>>
                  \o EntriesExpect(xlsx.entries)
           /\ \E k \in 2..Len(OutLines) - 1 :
                  /\ OutLines[1] = <<"--- DOCX: path ---">>
                  /\ OutLines[k] = <<>>
                  /\ OutLines[k + 1] = <<"--- XLSX: path ---">>
                  /\ k = 1 + Len(Lines(Concat(ParaExpect(docx.paragraphs))))
                         + Len(RowExpect(AllRows)) + 1
           /\ xlsx.entries = <<Entry(TRUE, "ok", DeepTree), RevenueEntry>> =>
                  TextsOf(OfKind("node")) =
                      <<<<"a", NL>>, <<"b", NL>>, <<"c", NL>>, <<"d", NL>>,
                        <<"R", "e", "v", "e", "n", "u", "e", NL>>>>

C6_Witness ==
    /\ pc = "done"
    /\ exit = 0
    /\ caught = {}
    /\ docx = MixedDoc
    /\ xlsx.entries = <<Entry(TRUE, "ok", DeepTree), RevenueEntry>>
    /\ Len(out) = 10

(* C7 as stated: the exit status is non-zero only if read_docx raised.     *)
C7_NonZeroOnlyIfDocxRaised ==
    (pc = "done" /\ exit # 0) => docxSt = "raised"

(* C7 amended: the exit status is 1 exactly when opening the output stream *)
(* failed, read_docx raised, or the write of read_xlsx's header line or    *)
(* diagnostic line failed, and 0 otherwise: a failure that read_xlsx       *)
(* contains (archive open, entry read, parse, text-node write) leaves it 0.*)
C7_ExitStatus ==
    pc = "done" =>
        /\ exit \in {0, 1}
        /\ exit = 1 <=>
               \/ stream = "unopened"
               \/ docxSt = "raised"
               \/ exc \in {"xlsx_hdr_write", "xlsx_diag_write"}
        /\ (docxSt = "returned" /\ xlsxSt = "returned") => exit = 0

C7_Witness ==
    /\ pc = "done"
    /\ exit = 0
    /\ docxSt = "returned"
    /\ "zip_open" \in caught

(* C8 as stated: no line written for a paragraph or a text node is blank.  *)
C8_NoBlankLine ==
    \A i \in 1..Len(out) :
        out[i].kind \in {"para", "node"} =>
            \A k \in 1..Len(Lines(out[i].text)) : ~IsBlank(Lines(out[i].text)[k])

(* C8 amended: the text written for a paragraph or a text node is not      *)
(* blank, so one of its lines is not blank, and when it has no embedded    *)
(* line break it is a single line that is not blank; the first and the     *)
(* last line written for a text node are not blank.                        *)
C8_WrittenTextNotBlank ==
    \A i \in 1..Len(out) :
        out[i].kind \in {"para", "node"} =>
            LET ls == Lines(out[i].text) IN
            /\ \E k \in 1..Len(ls) : ~IsBlank(ls[k])
            /\ ~HasNL(Body(out[i].text)) => Len(ls) = 1 /\ ~IsBlank(ls[1])
            /\ out[i].kind = "node" => ~IsBlank(ls[1]) /\ ~IsBlank(ls[Len(ls)])

C8_Witness ==
    \E i \in 1..Len(out) :
        /\ out[i].kind = "para"
        /\ out[i].text = <<"a", NL, NL>>
        /\ Lines(out[i].text) = <<<<"a">>, <<>>>>

(* C9: once opened, the output stream is closed when the driver block is   *)
(* left, by normal completion, after a contained spreadsheet failure or by *)
(* an exception of read_docx or read_xlsx: no terminal state has it open.  *)
C9_StreamClosed ==
    /\ (pc = "done" /\ exc # "open_out") => stream = "closed"
    /\ pc = "done" => stream # "open"
    /\ pc \notin {"start", "done"} => stream = "open"

C9_Witness ==
    /\ pc = "done"
    /\ stream = "closed"
    /\ docxSt = "raised"
    /\ exit = 1

(* C10: when opening the word document fails, the header line has been     *)
(* written, no paragraph or row line is, read_xlsx is not called, and the  *)
(* output holds the word-document header line alone.                       *)
C10_DocumentOpenFailure ==
    (~docx.ok /\ pc \notin {"start", "docx_hdr", "docx_open"} /\ out # <<>>) =>
        /\ out = <<[kind |-> "dhdr", src |-> 0, text |-> <<"--- DOCX: path ---", NL>>]>>
        /\ OutLines = <<<<"--- DOCX: path ---">>>>
        /\ xlsxSt = "notcalled"
        /\ docxSt = "raised"
        /\ pc = "done" => exit = 1 /\ stream = "closed"

C10_Witness ==
    /\ ~docx.ok
    /\ pc = "done"
    /\ exit = 1
    /\ Len(out) = 1

====
